---- MODULE Spec2Model ----
(***************************************************************************)
(* State-machine model of the quiz server: the HTTP handlers of            *)
(* server/routes.ts over the relational store of server/storage.ts         *)
(* (DatabaseStorage, the exported `storage`) with the tables of            *)
(* shared/schema.ts.                                                       *)
(*                                                                         *)
(* A handler suspends only at its store calls (await), so each action is   *)
(* the code between two suspension points.  Handlers whose store calls     *)
(* other requests can interleave with (solo registration, quiz            *)
(* submission) keep their position in `req`.                               *)
(***************************************************************************)
EXTENDS Integers, Sequences, FiniteSets, TLC

VARIABLES
    systemSettings,   \* the row of system_settings with id "system", or NoRow
    schools,          \* table schools:          id -> row
    participants,     \* table participants:     id -> row
    questions,        \* table questions:        id -> row
    quizSubmissions,  \* table quiz_submissions: id -> row
    req,              \* in-flight requests: slot -> position and locals
    resp,             \* the HTTP response sent by the last step (NoResp if none)
    thrown,           \* the store call that threw in the last step ("" if none)
    now,              \* Date.now(), in ticks
    sessions,         \* the ids of the sessions with isAdmin = true
    issued,           \* the tokens signed so far, each with its payload, time and ttl
    adminPassword,    \* process.env.ADMIN_PASSWORD, or Undefined when not configured
    boot,             \* the position of the initializeDatabase call of the constructor
    uuids,            \* table -> the number of ids gen_random_uuid() has drawn for it
    process           \* the Node process: "running", "rejecting" (a promise nobody
                      \* awaits is about to reject) or "exited"

vars == <<systemSettings, schools, participants, questions, quizSubmissions, req, resp, thrown,
          now, sessions, issued, adminPassword, boot, uuids, process>>

\* what the public routes never touch
authVars == <<now, sessions, issued, adminPassword, boot, process>>

\* the process has not exited: it takes requests and runs callbacks
Running == process # "exited"

(***************************************************************************)
(* Bounds                                                                  *)
(***************************************************************************)
MaxCodes == 6        \* number of distinct outcomes of the random generator
MaxSolo == 3         \* solo registrations, those of the registered population included
MaxSubmissions == 2  \* quiz submissions stored
MaxReqs == 2         \* requests in flight at the same time

Reqs == 1..MaxReqs

(***************************************************************************)
(* Program constants                                                       *)
(***************************************************************************)
SUBJECTS == <<"Astrophysics", "Observational Astronomy", "Rocketry", "Cosmology", "General Astronomy">>

chars == <<"A","B","C","D","E","F","G","H","I","J","K","L","M",
           "N","O","P","Q","R","S","T","U","V","W","X","Y","Z",
           "0","1","2","3","4","5","6","7","8","9">>

PasscodeLen == 6
TeamSize == 5

NoRow == [id |-> "none"]
NoId == 0            \* SQL NULL in an id column
NoSubject == ""      \* SQL NULL in a text column (subject, institution)
GhostId == 99        \* an id no row was ever given

Range(f) == {f[x] : x \in DOMAIN f}

(***************************************************************************)
(* generatePasscode: six times chars.charAt(floor(random() * 36)).         *)
(* `rnd` is the sequence of the six floor(random() * chars.length) values. *)
(***************************************************************************)
\* variant: the loop runs one turn short
generatePasscode_short(rnd) == [i \in 1..(PasscodeLen - 1) |-> chars[rnd[i] + 1]]

generatePasscode(rnd) == [i \in 1..PasscodeLen |-> chars[rnd[i] + 1]]

\* The outcomes of the random generator the model draws from: outcome k is
\* the index sequence k, 2k, 3k, ... (mod 36); distinct k give distinct codes.
Draw(k) == [i \in 1..PasscodeLen |-> (k * i) % Len(chars)]

(***************************************************************************)
(* Store reads                                                             *)
(***************************************************************************)
\* DatabaseStorage.getParticipantByPasscode: the rows with that passcode
getParticipantByPasscode(passcode) ==
    {id \in DOMAIN participants : participants[id].passcode = passcode}

\* DatabaseStorage.getSystemSettings: the row, or the literal fallback object
getSystemSettings ==
    IF systemSettings # NoRow
    THEN systemSettings
    ELSE [id |-> "system", registrationOpen |-> TRUE, quizActive |-> TRUE]

\* variant: a flag is taken as open whatever the settings say
Flag_alwaysOpen(settings, name) == TRUE

\* JavaScript truthiness of settings.<flag>: a missing property is undefined
Flag(settings, name) == IF name \in DOMAIN settings THEN settings[name] ELSE FALSE


\* the greatest id of the rows of a table, 0 for an empty table
LastId(table) ==
    IF DOMAIN table = {} THEN 0
    ELSE CHOOSE x \in DOMAIN table : \A y \in DOMAIN table : y <= x

\* gen_random_uuid(): an id that no row of the table has or has had; ids are
\* numbered in the order in which they are drawn
FreshId(name) == uuids[name] + 1

\* the ids drawn for a database in which no row has been deleted
DrawnIds ==
    [participants |-> LastId(participants), questions |-> LastId(questions),
     quizSubmissions |-> LastId(quizSubmissions)]

Idle == [pc |-> "idle", op |-> "none", passcode |-> <<>>, sub |-> NoId, pid |-> NoId]
NoResp == [op |-> "none", status |-> 0]

(***************************************************************************)
(* The question rows of the run, as an administrator has stored them (the  *)
(* migration script gives questions a mode, default 'both', and a nullable *)
(* subject; the question form offers the modes solo, team and both).       *)
(***************************************************************************)
SeedQuestions ==
    (1 :> [id |-> 1, correctAnswer |-> "B", marks |-> 2, orderIndex |-> 3, mode |-> "solo", subject |-> NoSubject]) @@
    (2 :> [id |-> 2, correctAnswer |-> "A", marks |-> 3, orderIndex |-> 1, mode |-> "both", subject |-> NoSubject]) @@
    (3 :> [id |-> 3, correctAnswer |-> "C", marks |-> 1, orderIndex |-> 2, mode |-> "team", subject |-> "Rocketry"]) @@
    (4 :> [id |-> 4, correctAnswer |-> "D", marks |-> 2, orderIndex |-> 4, mode |-> "team", subject |-> "Cosmology"])

\* DatabaseStorage.initializeDatabase: inserts the settings row when the
\* table is empty; the insert is inside a try/catch, so a failed insert
\* leaves the table empty.
InitSettingsRow ==
    [id |-> "system", soloRegistrationOpen |-> TRUE, schoolRegistrationOpen |-> TRUE, quizActive |-> TRUE]

\* the outcome of a call that raises an error
Throws == [kind |-> "throws"]

\* the absent value of JavaScript, and a string value
Undefined == [kind |-> "undefined"]
Str(text) == [kind |-> "string", chars |-> text]

\* the value of ADMIN_PASSWORD in a deployment that configures it
ConfiguredPassword == Str(<<"s", "e", "c", "r", "e", "t">>)

\* the row the migration script inserts: the quiz is not active yet
MigratedSettingsRow ==
    [id |-> "system", soloRegistrationOpen |-> TRUE, schoolRegistrationOpen |-> TRUE, quizActive |-> FALSE]

\* The server starts on the database an earlier run left, or on an empty
\* one; the constructor of DatabaseStorage has called initializeDatabase,
\* which is not awaited: its first select is still to be executed.
Init ==
    /\ systemSettings \in {InitSettingsRow, NoRow}
    /\ schools = << >>
    /\ participants = << >>
    /\ questions \in {SeedQuestions, << >>}
    /\ quizSubmissions = << >>
    /\ req = [r \in Reqs |-> Idle]
    /\ resp = NoResp
    /\ thrown = ""
    /\ now = 0
    /\ sessions = {}
    /\ issued = {}
    /\ adminPassword = ConfiguredPassword
    /\ boot = "selectSettings"
    /\ uuids = DrawnIds
    /\ process = "running"

(***************************************************************************)
(* DatabaseStorage.initializeDatabase, one store statement per step: the   *)
(* select of system_settings, the insert of the settings row when the      *)
(* select found none, the select of questions, the insert of the sample    *)
(* questions when the select found none.  A statement that fails ends the  *)
(* call in its catch block.                                                *)
(***************************************************************************)
\* the rows initializeSampleQuestions inserts (mode and subject are the
\* defaults of the columns)
SampleQuestions(first) ==
    LET correct == <<"B", "A", "B", "C", "B">>
        marks == <<5, 3, 4, 4, 3>>
    IN [id \in first..(first + 4) |->
           [id |-> id, correctAnswer |-> correct[id - first + 1], marks |-> marks[id - first + 1],
            orderIndex |-> id - first + 1, mode |-> "both", subject |-> NoSubject]]

InitializeDatabase(dbOk) ==
    /\ Running
    /\ boot \in {"selectSettings", "insertSettings", "selectQuestions", "insertQuestions"}
    /\ resp' = NoResp
    /\ thrown' = IF dbOk THEN "" ELSE "initializeDatabase"
    /\ UNCHANGED <<schools, participants, quizSubmissions, req, now, sessions, issued, adminPassword, process>>
    /\ IF ~dbOk
       THEN /\ boot' = "failed"
            /\ UNCHANGED <<systemSettings, questions, uuids>>
       ELSE IF boot = "selectSettings"
       THEN /\ boot' = IF systemSettings = NoRow THEN "insertSettings" ELSE "selectQuestions"
            /\ UNCHANGED <<systemSettings, questions, uuids>>
       ELSE IF boot = "insertSettings"
       THEN /\ systemSettings' = InitSettingsRow
            /\ boot' = "selectQuestions"
            /\ UNCHANGED <<questions, uuids>>
       ELSE IF boot = "selectQuestions"
       THEN /\ boot' = IF DOMAIN questions = {} THEN "insertQuestions" ELSE "done"
            /\ UNCHANGED <<systemSettings, questions, uuids>>
       ELSE /\ questions' = questions @@ SampleQuestions(FreshId("questions"))
            /\ uuids' = [uuids EXCEPT !.questions = @ + 5]
            /\ boot' = "done"
            /\ UNCHANGED systemSettings

(***************************************************************************)
(* POST /api/participants (solo registration)                              *)
(***************************************************************************)
\* z.object({name: min(1), email: email(), phone: min(1), institution?})
\* the bodies of the model: "" is a field that is missing or empty, and the
\* email of the model is an address the schema accepts
SoloBodies == [name : {"", "Ann"}, email : {"", "ann@example.org"}, phone : {"", "0123"}]
SoloBodyValid(body) == body.name # "" /\ body.email # "" /\ body.phone # ""

\* a body the schema accepts
ValidBody == [name |-> "Ann", email |-> "ann@example.org", phone |-> "0123"]

\* the catch block of the handler: ZodError -> 400, anything else -> 400
SoloCatchStatus(isZodError) == 400

\* settings read, gate, body validation; suspends at createParticipant
SoloStart(r, body, dbOk) ==
    /\ req[r].pc = "idle"
    /\ uuids.participants + Cardinality({q \in Reqs : req[q].op = "solo"}) < MaxSolo
    /\ UNCHANGED <<systemSettings, schools, participants, questions, quizSubmissions, uuids>>
    /\ thrown' = IF dbOk THEN "" ELSE "getSystemSettings"
    /\ IF ~dbOk
       THEN /\ resp' = [op |-> "solo", status |-> SoloCatchStatus(FALSE),
                        message |-> "Invalid registration data"]
            /\ UNCHANGED req
       ELSE IF ~Flag(getSystemSettings, "soloRegistrationOpen")
       THEN /\ resp' = [op |-> "solo", status |-> 403,
                        message |-> "Solo registration is currently closed"]
            /\ UNCHANGED req
       ELSE IF ~SoloBodyValid(body)
       THEN /\ resp' = [op |-> "solo", status |-> SoloCatchStatus(TRUE),
                        message |-> "Invalid registration data"]
            /\ UNCHANGED req
       ELSE /\ resp' = NoResp
            /\ req' = [req EXCEPT ![r] = [pc |-> "gen", op |-> "solo", passcode |-> << >>,
                                          sub |-> NoId, pid |-> NoId, body |-> body]]

\* createParticipant, one turn of the do/while loop:
\* passcode = generatePasscode(); await getParticipantByPasscode(passcode)
SoloGen(r, k, dbOk) ==
    /\ req[r].pc = "gen"
    /\ UNCHANGED <<systemSettings, schools, participants, questions, quizSubmissions, uuids>>
    /\ thrown' = IF dbOk THEN "" ELSE "getParticipantByPasscode"
    /\ LET passcode == generatePasscode(Draw(k)) IN
       IF ~dbOk
       THEN /\ resp' = [op |-> "solo", status |-> SoloCatchStatus(FALSE),
                        message |-> "Invalid registration data"]
            /\ req' = [req EXCEPT ![r] = Idle]
       ELSE IF getParticipantByPasscode(passcode) # {}
       THEN /\ resp' = NoResp
            /\ UNCHANGED req
       ELSE /\ resp' = NoResp
            /\ req' = [req EXCEPT ![r].pc = "insert", ![r].passcode = passcode]

\* variant: the passcode column has no unique constraint
UniqueViolation_none(passcode) == FALSE

\* participants.passcode is UNIQUE: the insert of a row whose passcode
\* another row has is rejected by the store
UniqueViolation(passcode) == getParticipantByPasscode(passcode) # {}

\* createParticipant: db.insert(participants).values({...insertParticipant,
\* passcode}).returning(): the row has the fields of the body and the
\* passcode; the other columns get their defaults (mode 'solo' in the
\* migration, NULL, false)
NewParticipant(id, insertParticipant, passcode) ==
    [id |-> id, name |-> insertParticipant.name, email |-> insertParticipant.email,
     phone |-> insertParticipant.phone,
     institution |-> IF "institution" \in DOMAIN insertParticipant
                     THEN insertParticipant.institution ELSE NoSubject,
     passcode |-> passcode, mode |-> "solo", schoolId |-> NoId,
     subject |-> NoSubject, isLeader |-> FALSE, hasCompletedQuiz |-> FALSE]

SoloInsert(r, dbOk) ==
    /\ req[r].pc = "insert"
    /\ req[r].op = "solo"
    /\ req' = [req EXCEPT ![r] = Idle]
    /\ UNCHANGED <<systemSettings, schools, questions, quizSubmissions>>
    /\ thrown' = IF ~dbOk THEN "createParticipant"
                 ELSE IF UniqueViolation(req[r].passcode) THEN "participants_passcode_unique"
                 ELSE ""
    /\ IF ~dbOk \/ UniqueViolation(req[r].passcode)
       THEN /\ resp' = [op |-> "solo", status |-> SoloCatchStatus(FALSE),
                        message |-> "Invalid registration data"]
            /\ UNCHANGED <<participants, uuids>>
       ELSE LET id == FreshId("participants")
                row == NewParticipant(id, req[r].body, req[r].passcode)
            IN /\ participants' = participants @@ (id :> row)
               /\ uuids' = [uuids EXCEPT !.participants = id]
               /\ resp' = [op |-> "solo", status |-> 200, participant |-> row]


(***************************************************************************)
(* POST /api/schools/register                                              *)
(***************************************************************************)
\* Request bodies: member lists built from a subject list, a set of leader
\* positions and a length; a 6th member repeats the first subject.
Members(subjects, leaders, n) ==
    [i \in 1..n |-> [subject |-> IF i <= TeamSize THEN subjects[i] ELSE subjects[1],
                     isLeader |-> i \in leaders]]

\* fieldsOk: schoolName, and every member's name, email and phone, pass
\* their string checks
SchoolBodies ==
    [fieldsOk : {TRUE},
     members :
        { Members(s, l, TeamSize) :
            s \in { SUBJECTS,
                    [i \in 1..TeamSize |-> SUBJECTS[TeamSize + 1 - i]],
                    [SUBJECTS EXCEPT ![2] = SUBJECTS[1]],
                    [SUBJECTS EXCEPT ![5] = "Biology"] },
            l \in { {}, {3}, {1, 2} } }
        \cup { Members(SUBJECTS, {3}, TeamSize - 1), Members(SUBJECTS, {3}, TeamSize + 1) }]
    \cup [fieldsOk : {FALSE},
          members : {Members(SUBJECTS, {3}, TeamSize), Members(SUBJECTS, {1, 2}, TeamSize)}]

\* schoolRegistrationSchema.parse(req.body) does not throw
SchoolSchemaOk(body) ==
    /\ body.fieldsOk
    /\ \A i \in DOMAIN body.members : body.members[i].subject \in Range(SUBJECTS)
    /\ Len(body.members) = 5

\* variant: the leader count is not checked
LeaderCountBad_unchecked(members) == FALSE

\* members.filter(m => m.isLeader).length !== 1
LeaderCountBad(members) ==
    Cardinality({i \in DOMAIN members : members[i].isLeader}) # 1

\* new Set(members.map(m => m.subject)).size !== 5
SubjectsNotUnique(members) ==
    Cardinality({members[i].subject : i \in DOMAIN members}) # 5

\* the catch block of the handler: ZodError -> 400, anything else -> 500
SchoolCatchStatus(isZodError) == IF isZodError THEN 400 ELSE 500

\* the generator outcomes a registration draws: the first and the last code
RegDraws == {0, MaxCodes - 1}

\* error.errors of the ZodError: the rules of the schema the body breaks
SchoolSchemaIssues(body) ==
    (IF body.fieldsOk THEN {} ELSE {"Required"})
    \cup (IF \A i \in DOMAIN body.members : body.members[i].subject \in Range(SUBJECTS)
          THEN {} ELSE {"Invalid enum value"})
    \cup (IF Len(body.members) = 5 THEN {} ELSE {"A school team must have exactly 5 members."})

\* the handler, which continues after its settings read (dbOk: the read
\* succeeds) in one piece: gate, schoolRegistrationSchema.parse, the leader
\* and the subject checks, and the call storage.registerSchoolWithMembers.
\* The store has no such method (neither IStorage nor DatabaseStorage
\* defines it), so the call raises a TypeError before anything is written
\* or awaited, and the catch block answers.
SchoolRegister(body, dbOk) ==
    /\ UNCHANGED <<systemSettings, schools, participants, questions, quizSubmissions, uuids, req>>
    /\ IF ~dbOk
       THEN /\ resp' = [op |-> "school", status |-> SchoolCatchStatus(FALSE),
                        message |-> "An unexpected error occurred."]
            /\ thrown' = "getSystemSettings"
       ELSE IF ~Flag(getSystemSettings, "schoolRegistrationOpen")
       THEN /\ resp' = [op |-> "school", status |-> 403,
                        message |-> "School registration is currently closed"]
            /\ thrown' = ""
       ELSE IF ~SchoolSchemaOk(body)
       THEN /\ resp' = [op |-> "school", status |-> SchoolCatchStatus(TRUE),
                        message |-> "Invalid registration data",
                        details |-> SchoolSchemaIssues(body)]
            /\ thrown' = ""
       ELSE IF LeaderCountBad(body.members)
       THEN /\ resp' = [op |-> "school", status |-> 400,
                        message |-> "Exactly one member must be designated as the leader."]
            /\ thrown' = ""
       ELSE IF SubjectsNotUnique(body.members)
       THEN /\ resp' = [op |-> "school", status |-> 400,
                        message |-> "Each member must be assigned a unique subject from the required list."]
            /\ thrown' = ""
       ELSE /\ resp' = [op |-> "school", status |-> SchoolCatchStatus(FALSE),
                        message |-> "An unexpected error occurred."]
            /\ thrown' = "registerSchoolWithMembers"

(***************************************************************************)
(* POST /api/participants/verify                                           *)
(***************************************************************************)
VerifyCodes == {generatePasscode(Draw(k)) : k \in 0..(MaxCodes - 1)}

\* variant: a participant who has completed the quiz is let in again
VerifyOutcome_ignoresCompleted(passcode) ==
    LET found == getParticipantByPasscode(passcode) IN
    IF found = {}
    THEN [op |-> "verify", status |-> 404, message |-> "Invalid passcode"]
    ELSE [op |-> "verify", status |-> 0, participant |-> participants[CHOOSE id \in found : TRUE]]

\* what the handler makes of the participant read: the 404 or the 403
\* response, or (status 0) the participant it goes on with
VerifyOutcome(passcode) ==
    LET found == getParticipantByPasscode(passcode) IN
    IF found = {}
    THEN [op |-> "verify", status |-> 404, message |-> "Invalid passcode"]
    ELSE LET participant == participants[CHOOSE id \in found : TRUE] IN
         IF participant.hasCompletedQuiz
         THEN [op |-> "verify", status |-> 403, message |-> "Quiz already completed"]
         ELSE [op |-> "verify", status |-> 0, participant |-> participant]

\* z.object({passcode: z.string()}).parse(req.body), then the read of the
\* participant; suspends at getSystemSettings.  passcode is Undefined when
\* the body has no string passcode
VerifyLookup(r, passcode, dbOk) ==
    /\ req[r].pc = "idle"
    /\ UNCHANGED <<systemSettings, schools, participants, questions, quizSubmissions, uuids>>
    /\ thrown' = IF passcode # Undefined /\ ~dbOk THEN "getParticipantByPasscode" ELSE ""
    /\ IF passcode = Undefined \/ ~dbOk
       THEN /\ resp' = [op |-> "verify", status |-> 400, message |-> "Invalid request"]
            /\ UNCHANGED req
       ELSE LET outcome == VerifyOutcome(passcode.chars) IN
            IF outcome.status # 0
            THEN /\ resp' = outcome
                 /\ UNCHANGED req
            ELSE /\ resp' = NoResp
                 /\ req' = [req EXCEPT ![r] = [pc |-> "settings", op |-> "verify",
                                               passcode |-> passcode.chars, sub |-> NoId,
                                               pid |-> outcome.participant.id,
                                               participant |-> outcome.participant]]

\* the read of the settings, then res.json({participant}) with the row
\* read before
VerifySettings(r, dbOk) ==
    /\ req[r].pc = "settings"
    /\ req[r].op = "verify"
    /\ req' = [req EXCEPT ![r] = Idle]
    /\ UNCHANGED <<systemSettings, schools, participants, questions, quizSubmissions, uuids>>
    /\ thrown' = IF dbOk THEN "" ELSE "getSystemSettings"
    /\ resp' = IF ~dbOk
               THEN [op |-> "verify", status |-> 400, message |-> "Invalid request"]
               ELSE IF ~Flag(getSystemSettings, "quizActive")
               THEN [op |-> "verify", status |-> 403, message |-> "Quiz is currently inactive"]
               ELSE [op |-> "verify", status |-> 200, participant |-> req[r].participant]


(***************************************************************************)
(* GET /api/questions                                                      *)
(***************************************************************************)
\* rows ordered by order_index ascending
RECURSIVE OrderByOrderIndex(_, _)
OrderByOrderIndex(table, ids) ==
    IF ids = {} THEN << >>
    ELSE LET first == CHOOSE x \in ids : \A y \in ids : table[x].orderIndex <= table[y].orderIndex
         IN <<table[first]>> \o OrderByOrderIndex(table, ids \ {first})

\* DatabaseStorage.getAllQuestions
getAllQuestions == OrderByOrderIndex(questions, DOMAIN questions)

\* the handler ignores the request (_req): `query` is the passcode the
\* client put in the query string, kept with the response it got
GetQuestions(query, dbOk) ==
    /\ UNCHANGED <<systemSettings, schools, participants, questions, quizSubmissions, req, uuids>>
    /\ thrown' = IF dbOk THEN "" ELSE "getAllQuestions"
    /\ IF ~dbOk
       THEN resp' = [op |-> "questions", status |-> 500, query |-> query]
       ELSE resp' = [op |-> "questions", status |-> 200, query |-> query, questions |-> getAllQuestions]

(***************************************************************************)
(* The question methods of the store.  No route of the server calls them:  *)
(* the admin dashboard sends POST, PUT and DELETE /api/admin/questions,    *)
(* and the store methods are what such a request has to act with.          *)
(***************************************************************************)
MaxQuestions == 5    \* question rows that createQuestion adds to

QuestionIds == {1, GhostId}

\* DatabaseStorage.createQuestion: INSERT INTO questions ... RETURNING
CreateQuestion(insertQuestion, dbOk) ==
    /\ uuids.questions < MaxQuestions
    /\ UNCHANGED <<systemSettings, schools, participants, quizSubmissions, req>>
    /\ thrown' = IF dbOk THEN "" ELSE "createQuestion"
    /\ IF ~dbOk
       THEN /\ resp' = [op |-> "createQuestion", status |-> 0]
            /\ UNCHANGED <<questions, uuids>>
       ELSE LET id == FreshId("questions")
                row == [id |-> id, correctAnswer |-> insertQuestion.correctAnswer,
                        marks |-> insertQuestion.marks, orderIndex |-> insertQuestion.orderIndex,
                        mode |-> "both", subject |-> NoSubject]
            IN /\ questions' = questions @@ (id :> row)
               /\ uuids' = [uuids EXCEPT !.questions = id]
               /\ resp' = [op |-> "createQuestion", status |-> 0, question |-> row]

\* DatabaseStorage.updateQuestion: UPDATE questions SET ... WHERE id = id
\* RETURNING; undefined when no row has the id
UpdateQuestion(id, updates, dbOk) ==
    /\ UNCHANGED <<systemSettings, schools, participants, quizSubmissions, uuids, req>>
    /\ thrown' = IF dbOk THEN "" ELSE "updateQuestion"
    /\ IF ~dbOk \/ id \notin DOMAIN questions
       THEN /\ resp' = [op |-> "updateQuestion", status |-> 0, id |-> id]
            /\ UNCHANGED questions
       ELSE LET row == [f \in DOMAIN questions[id] |->
                           IF f \in DOMAIN updates THEN updates[f] ELSE questions[id][f]]
            IN /\ questions' = [questions EXCEPT ![id] = row]
               /\ resp' = [op |-> "updateQuestion", status |-> 0, id |-> id, question |-> row]

\* DatabaseStorage.deleteQuestion: DELETE FROM questions WHERE id = id; true
\* when a row was deleted
DeleteQuestion(id, dbOk) ==
    /\ UNCHANGED <<systemSettings, schools, participants, quizSubmissions, uuids, req>>
    /\ thrown' = IF dbOk THEN "" ELSE "deleteQuestion"
    /\ IF ~dbOk
       THEN /\ resp' = [op |-> "deleteQuestion", status |-> 0, id |-> id, result |-> FALSE]
            /\ UNCHANGED questions
       ELSE /\ questions' = [x \in DOMAIN questions \ {id} |-> questions[x]]
            /\ resp' = [op |-> "deleteQuestion", status |-> 0, id |-> id,
                        result |-> id \in DOMAIN questions]

(***************************************************************************)
(* POST /api/quiz-submissions                                              *)
(***************************************************************************)
AnswerChoices == { << >>, (1 :> "B") @@ (2 :> "C") @@ (3 :> "C") }

\* what a client can send: the quiz page sends {participantId, answers,
\* timeTaken}; any client can add score and totalMarks
SubmitBodies ==
    { [participantId |-> p, answers |-> a, timeTaken |-> 30] :
        p \in DOMAIN participants \cup {GhostId}, a \in AnswerChoices }
    \cup
    { [participantId |-> p, answers |-> a, timeTaken |-> 30, score |-> sc, totalMarks |-> t] :
        p \in DOMAIN participants \cup {GhostId}, a \in AnswerChoices,
        sc \in {1, 9}, t \in {4} }

\* insertQuizSubmissionSchema.parse(req.body) does not throw: every column
\* of quiz_submissions but id and completedAt is required
SubmissionSchemaOk(body) ==
    {"participantId", "answers", "score", "totalMarks", "timeTaken"} \subseteq DOMAIN body

\* the catch block of the handler: ZodError -> 400, anything else -> 500
SubmitCatchStatus(isZodError) == IF isZodError THEN 400 ELSE 500

\* DatabaseStorage.createQuizSubmission: the inserted row
createQuizSubmission(id, submissionData) ==
    [id |-> id,
     participantId |-> submissionData.participantId,
     answers |-> submissionData.answers,
     score |-> submissionData.score,
     totalMarks |-> submissionData.totalMarks,
     timeTaken |-> submissionData.timeTaken]

\* parse, then await storage.createQuizSubmission(parsed)
SubmitInsert(r, body, dbOk) ==
    /\ req[r].pc = "idle"
    /\ uuids.quizSubmissions < MaxSubmissions
    /\ UNCHANGED <<systemSettings, schools, participants, questions>>
    /\ thrown' = IF SubmissionSchemaOk(body) /\ ~dbOk THEN "createQuizSubmission" ELSE ""
    /\ IF ~SubmissionSchemaOk(body)
       THEN /\ resp' = [op |-> "submit", status |-> SubmitCatchStatus(TRUE), participantId |-> body.participantId]
            /\ UNCHANGED <<quizSubmissions, uuids, req>>
       ELSE IF ~dbOk
       THEN /\ resp' = [op |-> "submit", status |-> SubmitCatchStatus(FALSE), participantId |-> body.participantId]
            /\ UNCHANGED <<quizSubmissions, uuids, req>>
       ELSE LET id == FreshId("quizSubmissions") IN
            /\ quizSubmissions' = quizSubmissions @@ (id :> createQuizSubmission(id, body))
            /\ uuids' = [uuids EXCEPT !.quizSubmissions = id]
            /\ req' = [req EXCEPT ![r] = [pc |-> "update", op |-> "submit", passcode |-> << >>,
                                          sub |-> id, pid |-> body.participantId,
                                          submission |-> createQuizSubmission(id, body)]]
            /\ resp' = NoResp

\* variant: the row is replaced by the updates; the text columns that the
\* updates do not name are lost
updateParticipant_replacesRow(id, updates) ==
    [p \in DOMAIN participants |->
        IF p = id
        THEN [f \in DOMAIN participants[p] |->
                 IF f \in DOMAIN updates THEN updates[f]
                 ELSE IF f \in {"name", "email", "phone"} THEN "" ELSE participants[p][f]]
        ELSE participants[p]]

\* DatabaseStorage.updateParticipant: UPDATE participants SET ... WHERE id = id
updateParticipant(id, updates) ==
    [p \in DOMAIN participants |->
        IF p = id
        THEN [f \in DOMAIN participants[p] |->
                 IF f \in DOMAIN updates THEN updates[f] ELSE participants[p][f]]
        ELSE participants[p]]

\* await storage.updateParticipant(participantId, {hasCompletedQuiz: true});
\* res.json(submission)
SubmitUpdate(r, dbOk) ==
    /\ req[r].pc = "update"
    /\ req' = [req EXCEPT ![r] = Idle]
    /\ UNCHANGED <<systemSettings, schools, questions, quizSubmissions, uuids>>
    /\ thrown' = IF dbOk THEN "" ELSE "updateParticipant"
    /\ IF ~dbOk
       THEN /\ resp' = [op |-> "submit", status |-> SubmitCatchStatus(FALSE), participantId |-> req[r].pid]
            /\ UNCHANGED participants
       ELSE /\ participants' = updateParticipant(req[r].pid, [hasCompletedQuiz |-> TRUE])
            /\ resp' = [op |-> "submit", status |-> 200, participantId |-> req[r].pid,
                        submission |-> req[r].submission]

(***************************************************************************)
(* Deletes of the store.  No route of the server calls them: the admin     *)
(* dashboard sends DELETE /api/admin/quiz-submissions/:id and              *)
(* DELETE /api/admin/participants/:id, and the store methods are what such *)
(* a request has to act with.                                              *)
(***************************************************************************)
DeleteIds == {1, 2, GhostId}

\* the table without the rows of the given ids
Without(table, ids) == [x \in DOMAIN table \ ids |-> table[x]]

\* DatabaseStorage.deleteQuizSubmission: DELETE FROM quiz_submissions
\* WHERE id = id; true when a row was deleted
DeleteQuizSubmission(id, dbOk) ==
    /\ UNCHANGED <<systemSettings, schools, participants, questions, req, uuids>>
    /\ thrown' = IF dbOk THEN "" ELSE "deleteQuizSubmission"
    /\ IF ~dbOk
       THEN /\ resp' = [op |-> "deleteQuizSubmission", status |-> 0, id |-> id, result |-> FALSE]
            /\ UNCHANGED quizSubmissions
       ELSE /\ quizSubmissions' = Without(quizSubmissions, {id})
            /\ resp' = [op |-> "deleteQuizSubmission", status |-> 0, id |-> id,
                        result |-> id \in DOMAIN quizSubmissions]

\* DatabaseStorage.deleteParticipant: DELETE FROM participants WHERE id = id;
\* true when a row was deleted
DeleteParticipant(id, dbOk) ==
    /\ UNCHANGED <<systemSettings, schools, questions, quizSubmissions, req, uuids>>
    /\ thrown' = IF dbOk THEN "" ELSE "deleteParticipant"
    /\ IF ~dbOk
       THEN /\ resp' = [op |-> "deleteParticipant", status |-> 0, id |-> id, result |-> FALSE]
            /\ UNCHANGED participants
       ELSE /\ participants' = Without(participants, {id})
            /\ resp' = [op |-> "deleteParticipant", status |-> 0, id |-> id,
                        result |-> id \in DOMAIN participants]

(***************************************************************************)
(* PUT /api/admin/settings                                                 *)
(***************************************************************************)
FlagNames == {"soloRegistrationOpen", "schoolRegistrationOpen", "quizActive"}

\* bodies that pass z.object({<flag>: z.boolean().optional(), ...})
SettingsBodies == UNION {[S -> BOOLEAN] : S \in SUBSET FlagNames}

\* DatabaseStorage.updateSystemSettings: db.update(systemSettings)
\* .set(settingsUpdate) raises "No values to set" for an update without a
\* column and sends no statement; otherwise UPDATE system_settings SET ...
\* WHERE id = 'system' (no row: nothing is updated)
updateSystemSettings(settingsUpdate) ==
    IF DOMAIN settingsUpdate = {}
    THEN Throws
    ELSE IF systemSettings = NoRow
    THEN NoRow
    ELSE [f \in DOMAIN systemSettings |->
             IF f \in DOMAIN settingsUpdate THEN settingsUpdate[f] ELSE systemSettings[f]]

\* the handler from the parse of the body to the response; its update, when
\* one is sent, is executed in this step (dbOk: it succeeds).  body is the
\* parsed body: the keys the schema does not know are stripped
SettingsWrite(body, bodyOk, dbOk) ==
    IF ~bodyOk
    THEN /\ resp' = [op |-> "putSettings", status |-> 400]
         /\ thrown' = ""
         /\ UNCHANGED systemSettings
    ELSE IF updateSystemSettings(body) = Throws \/ ~dbOk
    THEN /\ resp' = [op |-> "putSettings", status |-> 500]
         /\ thrown' = "updateSystemSettings"
         /\ UNCHANGED systemSettings
    ELSE /\ systemSettings' = updateSystemSettings(body)
         /\ thrown' = ""
         /\ resp' = [op |-> "putSettings", status |-> 200]

\* the update of a PUT that has passed requireAdmin, without the request's
\* way through the middleware
PutSettings(body, bodyOk, dbOk) ==
    /\ UNCHANGED <<schools, participants, questions, quizSubmissions, uuids, req>>
    /\ SettingsWrite(body, bodyOk, dbOk)

(***************************************************************************)
(* Admin tokens: signAdminToken and verifyAdminToken.                      *)
(* A string is a sequence of one-character strings.  A payload is a record *)
(* with a role (a string over a, d, m, i, n and .) and possibly an exp of   *)
(* its own.                                                                *)
(***************************************************************************)
Null == [kind |-> "null"]

DigitChars == <<"0", "1", "2", "3", "4", "5", "6", "7", "8", "9">>

\* the characters of the JSON texts of the model
JsonChars == <<"{", "}", ",", ".", "a", "d", "m", "i", "n">> \o DigitChars

\* the characters of the base64url texts of the model; two of them encode
\* one character of a JSON text
UrlChars == <<"A", "B", "C", "D", "E">>

IndexOf(c, alphabet) == CHOOSE i \in DOMAIN alphabet : alphabet[i] = c

\* the decimal digits of a number, as JSON.stringify writes it
RECURSIVE NumberToString(_)
NumberToString(n) ==
    IF n < 10 THEN <<DigitChars[n + 1]>>
    ELSE NumberToString(n \div 10) \o <<DigitChars[(n % 10) + 1]>>

RECURSIVE StringToNumber(_)
StringToNumber(digits) ==
    IF Len(digits) = 0 THEN 0
    ELSE 10 * StringToNumber(SubSeq(digits, 1, Len(digits) - 1))
         + (IndexOf(digits[Len(digits)], DigitChars) - 1)

\* { ...payload, exp }
SpreadWithExp(payload, exp) ==
    [f \in DOMAIN payload \cup {"exp"} |-> IF f = "exp" THEN exp ELSE payload[f]]

\* JSON.stringify(body): the role, a comma, the exp, in braces
JSONstringify(body) ==
    <<"{">> \o body.role \o <<",">> \o NumberToString(body.exp) \o <<"}">>

\* JSON.parse(text): the body, or Throws (a SyntaxError) for a text that is
\* no such object
JSONparse(text) ==
    LET n == Len(text)
        commas == {i \in 1..n : text[i] = ","}
    IN IF n < 4 \/ text[1] # "{" \/ text[n] # "}" \/ Cardinality(commas) # 1
       THEN Throws
       ELSE LET c == CHOOSE i \in commas : TRUE
                role == SubSeq(text, 2, c - 1)
                digits == SubSeq(text, c + 1, n - 1)
            IN IF /\ \A i \in DOMAIN role : role[i] \in {"a", "d", "m", "i", "n", "."}
                  /\ Len(digits) > 0
                  /\ \A i \in DOMAIN digits : digits[i] \in Range(DigitChars)
                  /\ (Len(digits) > 1 => digits[1] # "0")
               THEN [role |-> role, exp |-> StringToNumber(digits)]
               ELSE Throws

\* Buffer.from(text).toString("base64url"): every character of the text
\* becomes two characters of the url alphabet, none of them a "."
Base64UrlEncode(text) ==
    [i \in 1..(2 * Len(text)) |->
        LET code == IndexOf(text[(i + 1) \div 2], JsonChars) - 1
        IN UrlChars[(IF i % 2 = 1 THEN code \div Len(UrlChars) ELSE code % Len(UrlChars)) + 1]]

\* the characters that the pairs of a text over the url alphabet encode; a
\* last character without a partner encodes nothing
RECURSIVE DecodePairs(_)
DecodePairs(kept) ==
    IF Len(kept) < 2
    THEN << >>
    ELSE LET code == Len(UrlChars) * (IndexOf(kept[1], UrlChars) - 1)
                     + IndexOf(kept[2], UrlChars)
         IN (IF code \in DOMAIN JsonChars THEN <<JsonChars[code]>> ELSE <<"?">>)
            \o DecodePairs(SubSeq(kept, 3, Len(kept)))

\* Buffer.from(encoded, "base64url").toString(): the decoder stops at the
\* first "=", skips every other character that is not of the url alphabet
\* and decodes the rest
Base64UrlDecode(encoded) ==
    LET pads == {i \in DOMAIN encoded : encoded[i] = "="}
        data == IF pads = {} THEN encoded
                ELSE SubSeq(encoded, 1, (CHOOSE i \in pads : \A j \in pads : i <= j) - 1)
    IN DecodePairs(SelectSeq(data, LAMBDA c : c \in Range(UrlChars)))

\* Buffer.from(text).length: the number of UTF-8 bytes of the text; every
\* character of the model is one byte but "é", which is two
RECURSIVE ByteLength(_)
ByteLength(text) ==
    IF text = << >> THEN 0
    ELSE (IF Head(text) = "é" THEN 2 ELSE 1) + ByteLength(Tail(text))

\* the length of a sha256 digest in base64url (32 bytes, no padding)
SigLen == 43

\* the characters of the digests of the model, in the order the secret key
\* gives them
SigChars == <<"F", "C", "E", "A", "G", "B", "D">>

RECURSIVE SumWeights(_, _)
SumWeights(text, i) ==
    IF i > Len(text) THEN 0
    ELSE (IF text[i] \in Range(UrlChars) THEN IndexOf(text[i], UrlChars) ELSE Len(UrlChars) + 1)
         + SumWeights(text, i + SigLen)

\* crypto.createHmac("sha256", ADMIN_TOKEN_SECRET).update(encoded)
\* .digest("base64url"): a text of SigLen characters without a "."; two
\* texts that differ in one character, or of which one continues the other
\* by fewer than Len(SigChars) * SigLen characters, have distinct digests
HmacBase64Url(encoded) ==
    [i \in 1..SigLen |-> SigChars[(SumWeights(encoded, i) % Len(SigChars)) + 1]]

\* token.split("."): the parts between the dots
RECURSIVE Split(_)
Split(text) ==
    LET dots == {i \in DOMAIN text : text[i] = "."} IN
    IF dots = {} THEN <<text>>
    ELSE LET d == CHOOSE i \in dots : \A j \in dots : i <= j
         IN <<SubSeq(text, 1, d - 1)>> \o Split(SubSeq(text, d + 1, Len(text)))

\* a signAdminToken that leaves the lifetime out of the expiry
signAdminToken_noTtl(payload, ttlMs, dateNow) ==
    LET body == SpreadWithExp(payload, dateNow)
        encoded == Base64UrlEncode(JSONstringify(body))
        sig == HmacBase64Url(encoded)
    IN encoded \o <<".">> \o sig

\* signAdminToken(payload, ttlMs) called when Date.now() is dateNow
signAdminToken(payload, ttlMs, dateNow) ==
    LET body == SpreadWithExp(payload, dateNow + ttlMs)
        encoded == Base64UrlEncode(JSONstringify(body))
        sig == HmacBase64Url(encoded)
    IN encoded \o <<".">> \o sig

\* a verifyAdminToken that does not look at the expiry
verifyAdminToken_noExpiry(token, dateNow) ==
    IF token = Undefined \/ token.chars = << >> THEN Null
    ELSE LET parts == Split(token.chars)
             encoded == parts[1]
         IN IF encoded = << >> \/ Len(parts) < 2 THEN Null
            ELSE IF parts[2] = << >> THEN Null
            ELSE LET sig == parts[2]
                     expected == HmacBase64Url(encoded)
                 IN IF ByteLength(sig) # ByteLength(expected) THEN Throws
                    ELSE IF sig # expected THEN Null
                    ELSE LET body == JSONparse(Base64UrlDecode(encoded)) IN
                         IF body = Throws THEN Null ELSE body

\* verifyAdminToken(token) called when Date.now() is dateNow: the decoded
\* body, Null, or Throws when crypto.timingSafeEqual raises its RangeError
\* for buffers of different byte lengths (the call is outside the try)
verifyAdminToken(token, dateNow) ==
    IF token = Undefined \/ token.chars = << >> THEN Null
    ELSE LET parts == Split(token.chars)
             encoded == parts[1]
         IN IF encoded = << >> \/ Len(parts) < 2 THEN Null
            ELSE IF parts[2] = << >> THEN Null
            ELSE LET sig == parts[2]
                     expected == HmacBase64Url(encoded)
                 IN IF ByteLength(sig) # ByteLength(expected) THEN Throws
                    ELSE IF sig # expected THEN Null
                    ELSE LET body == JSONparse(Base64UrlDecode(encoded)) IN
                         IF body = Throws THEN Null
                         ELSE IF dateNow > body.exp THEN Null
                         ELSE body

(***************************************************************************)
(* The clock, and the token functions applied to chosen inputs             *)
(***************************************************************************)
MaxClock == 3
MaxTokens == 1
MaxTtl == 2

\* Date.now() advances
Tick ==
    /\ Running
    /\ now < MaxClock
    /\ now' = now + 1
    /\ UNCHANGED <<systemSettings, schools, participants, questions, quizSubmissions, uuids,
                   req, resp, thrown, sessions, issued, adminPassword, boot, process>>

AdminRole == <<"a", "d", "m", "i", "n">>


\* a call of signAdminToken(payload, ttlMs); the token is remembered with
\* the arguments and the time of the call
Sign(payload, ttlMs) ==
    /\ Running
    /\ Cardinality(issued) < MaxTokens
    /\ issued' = issued \cup {[token |-> signAdminToken(payload, ttlMs, now),
                                payload |-> payload, iat |-> now, ttl |-> ttlMs]}
    /\ resp' = [op |-> "signToken", status |-> 0]
    /\ UNCHANGED <<systemSettings, schools, participants, questions, quizSubmissions, uuids,
                   req, thrown, now, sessions, adminPassword, boot, process>>

OtherUrlChar(c) == IF c = "A" THEN "B" ELSE "A"

\* what an attacker makes of a token: a changed character in the payload
\* part or in the signature part, a signature one character shorter or
\* longer, the "." removed, more text appended after the signature, a
\* signature that ends in a character of two bytes (with as many bytes, and
\* with as many characters, as a digest has)
ChangedSignature(token) == [token EXCEPT ![Len(token)] = OtherUrlChar(@)]
ShorterSignature(token) == SubSeq(token, 1, Len(token) - 1)
TextAppended(token) == token \o <<".", "A">>

\* the tampered tokens sent to the admin routes
HeaderTampered(token) == {ChangedSignature(token), ShorterSignature(token), TextAppended(token)}

Tampered(token) ==
    {[token EXCEPT ![1] = OtherUrlChar(@)], ChangedSignature(token), ShorterSignature(token),
     token \o <<"A">>, SelectSeq(token, LAMBDA c : c # "."), TextAppended(token),
     SubSeq(token, 1, Len(token) - 2) \o <<"é">>, [token EXCEPT ![Len(token)] = "é"]}

\* the tokens a caller presents: none, the issued ones, tampered ones
TokenInputs ==
    {Undefined} \cup {Str(t.token) : t \in issued}
                \cup {Str(x) : x \in UNION {Tampered(t.token) : t \in issued}}

\* a call of verifyAdminToken(token); the response keeps the argument, the
\* time of the call and the result
VerifyToken(token) ==
    /\ Running
    /\ resp' = [op |-> "verifyToken", status |-> 0, token |-> token, at |-> now,
                result |-> verifyAdminToken(token, now)]
    /\ UNCHANGED <<systemSettings, schools, participants, questions, quizSubmissions, uuids,
                   req, thrown, now, sessions, issued, adminPassword, boot, process>>

(***************************************************************************)
(* Admin login, the requireAdmin middleware and the admin routes.          *)
(* sessions holds a record per session id the server has made: isAdmin     *)
(* tells whether the store holds that session with isAdmin set, sent       *)
(* whether a response has carried its cookie to a client.                  *)
(***************************************************************************)
MaxSessions == 1

\* the default lifetime of a token; also the maxAge of the session cookie
DefaultTtl == 86400000  \* 24 * 60 * 60 * 1000 ms

NoSid == 0
dataVars == <<systemSettings, schools, participants, questions, quizSubmissions, uuids, req>>
tables == <<systemSettings, schools, participants, questions, quizSubmissions, uuids>>

\* the session cookies a client can send: none, or one a response carried
Cookies == {NoSid} \cup {x.sid : x \in {y \in sessions : y.sent}}

\* req.session?.isAdmin of a request that carries the cookie of session sid
SessionIsAdmin(sid) == \E x \in sessions : x.sid = sid /\ x.isAdmin

\* more than a day passes: the sessions have expired
Elapse ==
    /\ Running
    /\ now <= MaxClock
    /\ now' = now + DefaultTtl + 1
    /\ sessions' = {[x EXCEPT !.isAdmin = FALSE] : x \in sessions}
    /\ UNCHANGED <<dataVars, resp, thrown, issued, adminPassword, boot, process>>

\* store.destroy(sid): the session of the request is no longer stored
Destroyed(sid) == {IF x.sid = sid THEN [x EXCEPT !.isAdmin = FALSE] ELSE x : x \in sessions}

\* POST /api/admin/login with body.password = password (Undefined when the
\* body has none) and the cookie of session sid, up to the return of
\* req.session.regenerate: the store destroys the session at once (unless
\* the destroy fails) and calls back in a later turn.  hasSession: the
\* session middleware has given the request a session
LoginStart(r, password, sid, hasSession, destroyOk) ==
    /\ Running
    /\ req[r].pc = "idle"
    /\ UNCHANGED <<tables, thrown, now, issued, adminPassword, boot, process>>
    /\ IF password # adminPassword
       THEN /\ resp' = [op |-> "login", status |-> 401, message |-> "Invalid credentials"]
            /\ UNCHANGED <<sessions, req>>
       ELSE IF ~hasSession
       THEN /\ resp' = [op |-> "login", status |-> 500, message |-> "Session not available"]
            /\ UNCHANGED <<sessions, req>>
       ELSE /\ Cardinality(sessions)
               + Cardinality({q \in Reqs : req[q].op = "login" /\ req[q].pc = "regenerate"})
               < MaxSessions
            /\ sessions' = IF destroyOk THEN Destroyed(sid) ELSE sessions
            /\ req' = [req EXCEPT ![r] = [pc |-> "regenerate", op |-> "login", passcode |-> << >>,
                                          sub |-> NoId, pid |-> NoId, err |-> ~destroyOk]]
            /\ resp' = NoResp

\* the callback of regenerate: the request has a new session; isAdmin is
\* set on it and req.session.save() hands it to the store, which stores it
\* at once (unless the save fails) and calls back in a later turn
LoginRegenerated(r, saveOk) ==
    /\ Running
    /\ req[r].pc = "regenerate"
    /\ UNCHANGED <<tables, thrown, now, issued, adminPassword, boot, process>>
    /\ IF req[r].err
       THEN /\ resp' = [op |-> "login", status |-> 500, message |-> "Failed to start session"]
            /\ req' = [req EXCEPT ![r] = Idle]
            /\ UNCHANGED sessions
       ELSE LET sid == Cardinality(sessions) + 1 IN
            /\ sessions' = sessions \cup {[sid |-> sid, isAdmin |-> saveOk, sent |-> FALSE]}
            /\ req' = [req EXCEPT ![r] = [pc |-> "save", op |-> "login", passcode |-> << >>,
                                          sub |-> sid, pid |-> NoId, err |-> ~saveOk]]
            /\ resp' = NoResp

\* the callback of save: the token is signed with the Date.now() of this
\* turn; the response carries the cookie of the new session
LoginSaved(r) ==
    /\ Running
    /\ req[r].pc = "save"
    /\ req' = [req EXCEPT ![r] = Idle]
    /\ sessions' = {IF x.sid = req[r].sub THEN [x EXCEPT !.sent = TRUE] ELSE x : x \in sessions}
    /\ UNCHANGED <<tables, thrown, now, adminPassword, boot, process>>
    /\ IF req[r].err
       THEN /\ resp' = [op |-> "login", status |-> 500, message |-> "Failed to save session"]
            /\ UNCHANGED issued
       ELSE LET token == signAdminToken([role |-> AdminRole], DefaultTtl, now) IN
            /\ issued' = issued \cup {[token |-> token, payload |-> [role |-> AdminRole],
                                        iat |-> now, ttl |-> DefaultTtl]}
            /\ resp' = [op |-> "login", status |-> 200, token |-> token, sid |-> req[r].sub]

BearerPrefix == <<"B", "e", "a", "r", "e", "r", " ">>

StartsWith(text, prefix) ==
    Len(text) >= Len(prefix) /\ SubSeq(text, 1, Len(prefix)) = prefix

\* the Authorization headers a client sends: none, another scheme, Bearer
\* with an issued or a tampered token
AuthHeaders ==
    {Undefined, Str(<<"B", "a", "s", "i", "c", " ", "A">>)}
        \cup {Str(BearerPrefix \o t.token) : t \in issued}
        \cup {Str(BearerPrefix \o x) : x \in UNION {HeaderTampered(t.token) : t \in issued}}

\* the token requireAdmin takes from the header
BearerToken(auth) ==
    IF auth # Undefined /\ StartsWith(auth.chars, BearerPrefix)
    THEN Str(SubSeq(auth.chars, Len(BearerPrefix) + 1, Len(auth.chars)))
    ELSE Undefined

\* requireAdmin: "next" when the route handler runs, "401" when it sends
\* the 401 response, "throws" when verifyAdminToken raises
requireAdmin(auth, sid) ==
    LET verified == verifyAdminToken(BearerToken(auth), now) IN
    IF verified = Throws THEN "throws"
    ELSE IF verified # Null \/ SessionIsAdmin(sid) THEN "next"
    ELSE "401"

\* the response when the handler does not run: the 401 of requireAdmin, or
\* the 500 of the error handler for an error raised in the middleware
Denied(gate) ==
    /\ gate # "next"
    /\ resp' = IF gate = "throws" THEN [op |-> "errorHandler", status |-> 500]
               ELSE [op |-> "requireAdmin", status |-> 401]
    /\ UNCHANGED <<dataVars, thrown, authVars>>

\* a handler that has started its store call and waits for it
Suspended(r, route, body) ==
    /\ req' = [req EXCEPT ![r] = [pc |-> "admin", op |-> route, passcode |-> << >>,
                                  sub |-> NoId, pid |-> NoId, body |-> body, read |-> << >>]]
    /\ resp' = NoResp
    /\ thrown' = ""
    /\ UNCHANGED <<tables, authVars>>

\* a handler whose store call comes back: the body, or 500 when it failed
AdminGet(r, route, body, dbOk) ==
    /\ Running
    /\ req[r].pc = "admin"
    /\ req[r].op = route
    /\ req' = [req EXCEPT ![r] = Idle]
    /\ resp' = IF dbOk THEN [op |-> route, status |-> 200, body |-> body]
               ELSE [op |-> route, status |-> 500]
    /\ thrown' = IF dbOk THEN "" ELSE route
    /\ UNCHANGED <<tables, authVars>>

\* GET /api/admin/settings: the read of the settings comes back
AdminGetSettings(r, dbOk) == AdminGet(r, "getSettings", getSystemSettings, dbOk)

\* PUT /api/admin/settings: a body the schema rejects (Undefined), and one
\* that leaves no column to set, are answered in the turn of the request
AdminPutRejected(body) ==
    /\ SettingsWrite(IF body = Undefined THEN << >> ELSE body, body # Undefined, TRUE)
    /\ UNCHANGED <<schools, participants, questions, quizSubmissions, uuids, req, authVars>>

\* PUT /api/admin/settings: the update is executed and comes back
AdminPutSettings(r, dbOk) ==
    /\ Running
    /\ req[r].pc = "admin"
    /\ req[r].op = "putSettings"
    /\ req' = [req EXCEPT ![r] = Idle]
    /\ SettingsWrite(req[r].body, TRUE, dbOk)
    /\ UNCHANGED <<schools, participants, questions, quizSubmissions, uuids, authVars>>

\* GET /api/admin/stats: the array of Promise.all is built from left to
\* right.  storage.getAllParticipants() sends its select; the store has no
\* method getAllSchools, the call raises a TypeError inside the try block
\* and the catch block answers.  Nobody awaits the promise of the select:
\* when the select fails (~dbOk) its rejection is unhandled.
AdminStats(dbOk) ==
    /\ resp' = [op |-> "stats", status |-> 500, message |-> "Failed to fetch stats"]
    /\ thrown' = "getAllSchools"
    /\ process' = IF dbOk THEN process ELSE "rejecting"
    /\ UNCHANGED <<dataVars, now, sessions, issued, adminPassword, boot>>

\* the select of getAllParticipants that GET /api/admin/stats left behind
\* fails: Node ends the process on the unhandled rejection, and the
\* requests in flight are never answered
UnhandledRejection ==
    /\ process = "rejecting"
    /\ process' = "exited"
    /\ resp' = NoResp
    /\ thrown' = "getAllParticipants"
    /\ UNCHANGED <<dataVars, now, sessions, issued, adminPassword, boot>>

\* GET /api/admin/schools: await storage.getAllSchools() raises the
\* TypeError before any statement is sent

AdminSchools ==
    /\ resp' = [op |-> "schools", status |-> 500, message |-> "Failed to fetch schools"]
    /\ thrown' = "getAllSchools"
    /\ UNCHANGED <<dataVars, authVars>>

\* GET /api/admin/participants: the select comes back
AdminParticipants(r, dbOk) == AdminGet(r, "participants", participants, dbOk)

\* subs.map(s => ...) over the rows the two selects returned
Enriched(subs, ps) ==
    [i \in DOMAIN subs |->
        LET found == subs[i].participantId \in DOMAIN ps
        IN [id |-> subs[i].id, participantId |-> subs[i].participantId,
            participantName |-> IF found THEN ps[subs[i].participantId].name ELSE "Unknown",
            schoolId |-> IF found THEN ps[subs[i].participantId].schoolId ELSE NoId,
            score |-> subs[i].score, timeTaken |-> subs[i].timeTaken]]

\* GET /api/admin/quiz-submissions: one of the two selects of Promise.all
\* is executed; the response is sent when both have come back, or when one
\* has failed
AdminQuizSubmissions(r, table, dbOk) ==
    /\ Running
    /\ req[r].pc = "admin"
    /\ req[r].op = "quizSubmissions"
    /\ table \notin DOMAIN req[r].read
    /\ UNCHANGED <<tables, authVars>>
    /\ thrown' = IF dbOk THEN "" ELSE "quizSubmissions"
    /\ LET rows == IF table = "subs" THEN quizSubmissions ELSE participants
           read == req[r].read @@ (table :> rows)
       IN IF ~dbOk
          THEN /\ resp' = [op |-> "quizSubmissions", status |-> 500]
               /\ req' = [req EXCEPT ![r] = Idle]
          ELSE IF DOMAIN read # {"subs", "ps"}
          THEN /\ resp' = NoResp
               /\ req' = [req EXCEPT ![r].read = read]
          ELSE /\ resp' = [op |-> "quizSubmissions", status |-> 200,
                           body |-> Enriched(read.subs, read.ps)]
               /\ req' = [req EXCEPT ![r] = Idle]

\* the bodies of PUT /api/admin/settings: three the schema accepts, and
\* (Undefined) one it rejects
AdminSettingsBodies ==
    {<< >>, [quizActive |-> FALSE], [quizActive |-> TRUE, soloRegistrationOpen |-> FALSE]}

AdminRoutes == {"getSettings", "putSettings", "stats", "participants", "quizSubmissions", "schools"}

\* the handler of the route from its start to its first await
AdminHandler(r, route, body) ==
    IF route = "stats" THEN \E dbOk \in BOOLEAN : AdminStats(dbOk)
    ELSE IF route = "schools" THEN AdminSchools
    ELSE IF route = "putSettings" /\ (body = Undefined \/ DOMAIN body = {}) THEN AdminPutRejected(body)
    ELSE Suspended(r, route, body)

\* a request to an admin route for which requireAdmin has decided `gate`
Gated(r, gate, route, body) ==
    /\ Running
    /\ req[r].pc = "idle"
    /\ \/ Denied(gate)
       \/ gate = "next" /\ AdminHandler(r, route, body)

\* app.use("/api/admin", requireAdmin): a request to an admin route passes
\* the middleware first, and its handler runs up to its first await
AdminRequest(r, auth, sid, route, body) == Gated(r, requireAdmin(auth, sid), route, body)

(***************************************************************************)
(* Handler steps with their inputs                                         *)
(***************************************************************************)
\* a failed settings read has the same outcome for every body, a failed
\* lookup for every candidate
SoloSteps ==
    /\ Running /\ UNCHANGED authVars
    /\ \/ \E r \in Reqs, body \in SoloBodies : SoloStart(r, body, TRUE)
       \/ \E r \in Reqs : SoloStart(r, ValidBody, FALSE)
       \/ \E r \in Reqs, k \in RegDraws : SoloGen(r, k, TRUE)
       \/ \E r \in Reqs : SoloGen(r, 0, FALSE)
       \/ \E r \in Reqs, dbOk \in BOOLEAN : SoloInsert(r, dbOk)

\* a failed settings read has the same outcome for every body
SchoolSteps ==
    /\ Running /\ UNCHANGED authVars
    /\ \/ \E body \in SchoolBodies : SchoolRegister(body, TRUE)
       \/ SchoolRegister([fieldsOk |-> TRUE, members |-> Members(SUBJECTS, {3}, TeamSize)], FALSE)

\* a failed read has the same outcome for every passcode
VerifySteps ==
    /\ Running /\ UNCHANGED authVars
    /\ \/ \E r \in Reqs, passcode \in VerifyCodes : VerifyLookup(r, Str(passcode), TRUE)
       \/ \E r \in Reqs : VerifyLookup(r, Undefined, TRUE)
       \/ \E r \in Reqs : VerifyLookup(r, Str(generatePasscode(Draw(0))), FALSE)
       \/ \E r \in Reqs, dbOk \in BOOLEAN : VerifySettings(r, dbOk)

QuestionSteps ==
    /\ Running /\ UNCHANGED authVars
    /\ \E query \in VerifyCodes, dbOk \in BOOLEAN : GetQuestions(query, dbOk)

QuestionStoreSteps ==
    /\ Running /\ UNCHANGED authVars
    /\ \/ \E insertQuestion \in {[correctAnswer |-> "A", marks |-> 1, orderIndex |-> 0]}, dbOk \in BOOLEAN : CreateQuestion(insertQuestion, dbOk)
       \/ \E id \in QuestionIds, updates \in {[marks |-> 9, orderIndex |-> 9]}, dbOk \in BOOLEAN :
             UpdateQuestion(id, updates, dbOk)
       \/ \E id \in QuestionIds, dbOk \in BOOLEAN : DeleteQuestion(id, dbOk)

BootSteps == \E dbOk \in BOOLEAN : InitializeDatabase(dbOk)

DeleteSteps ==
    /\ Running /\ UNCHANGED authVars
    /\ \/ \E id \in DeleteIds, dbOk \in BOOLEAN : DeleteQuizSubmission(id, dbOk)
       \/ \E id \in DeleteIds, dbOk \in BOOLEAN : DeleteParticipant(id, dbOk)

SubmitSteps ==
    /\ Running /\ UNCHANGED authVars
    /\ \/ \E r \in Reqs, body \in SubmitBodies, dbOk \in BOOLEAN : SubmitInsert(r, body, dbOk)
       \/ \E r \in Reqs, dbOk \in BOOLEAN : SubmitUpdate(r, dbOk)

\* a rejected body and a failed update have the same outcome for every body
SettingsSteps ==
    /\ Running /\ UNCHANGED authVars
    /\ \/ \E body \in SettingsBodies : PutSettings(body, TRUE, TRUE)
       \/ PutSettings([quizActive |-> TRUE], TRUE, FALSE)
       \/ PutSettings(<< >>, FALSE, TRUE)

\* calls of the token functions
TokenSteps ==
    \* payloads: the one the login route signs, and one with a "." in its
    \* role and an exp of its own
    \/ \E payload \in {[role |-> AdminRole], [role |-> <<"a", ".", "d">>, exp |-> 0]},
          ttlMs \in {1, MaxTtl} : Sign(payload, ttlMs)
    \/ \E token \in TokenInputs : VerifyToken(token)

\* the passwords a client sends: the configured one, another one, none
Passwords == {ConfiguredPassword, Str(<<"x">>), Undefined}

\* the cookie, the session and the store matter only to a request with the
\* right password
LoginOn(slots) ==
    \/ \E r \in slots, password \in Passwords, sid \in Cookies, destroyOk \in BOOLEAN :
          LoginStart(r, password, sid, TRUE, destroyOk)
    \/ \E r \in slots, password \in Passwords : LoginStart(r, password, NoSid, FALSE, TRUE)
    \/ \E r \in slots, saveOk \in BOOLEAN : LoginRegenerated(r, saveOk)
    \/ \E r \in slots : LoginSaved(r)


\* the body matters only to PUT /api/admin/settings
AdminOn(slots) ==
    \/ \E r \in slots, auth \in AuthHeaders, sid \in Cookies :
          /\ req[r].pc = "idle"
          /\ LET gate == requireAdmin(auth, sid) IN
             \/ \E route \in AdminRoutes \ {"putSettings"} : Gated(r, gate, route, << >>)
             \/ \E body \in AdminSettingsBodies \cup {Undefined} :
                   Gated(r, gate, "putSettings", body)
    \/ \E r \in slots, dbOk \in BOOLEAN : AdminGetSettings(r, dbOk)
    \/ \E r \in slots, dbOk \in BOOLEAN : AdminPutSettings(r, dbOk)
    \/ \E r \in slots, dbOk \in BOOLEAN : AdminParticipants(r, dbOk)
    \/ \E r \in slots, table \in {"subs", "ps"}, dbOk \in BOOLEAN : AdminQuizSubmissions(r, table, dbOk)


(***************************************************************************)
(* The server: any handler step of any request                             *)
(***************************************************************************)
Next ==
    \/ SoloSteps
    \/ SchoolSteps
    \/ VerifySteps
    \/ QuestionSteps
    \/ SubmitSteps
    \/ SettingsSteps
    \/ Tick
    \/ Elapse
    \/ TokenSteps
    \/ LoginOn(Reqs)
    \/ AdminOn(Reqs)
    \/ DeleteSteps
    \/ QuestionStoreSteps
    \/ BootSteps
    \/ UnhandledRejection

Spec == Init /\ [][Next]_vars

\* The properties are checked under the specifications below, each the
\* server restricted to the routes a property is about (the state space of
\* all routes together is too large to enumerate).

\* registration while an administrator opens and closes it: the settings
\* updates that leave quizActive alone
GateBodies == {body \in SettingsBodies : "quizActive" \notin DOMAIN body}

GateSteps ==
    /\ Running /\ UNCHANGED authVars
    /\ \/ \E body \in GateBodies : PutSettings(body, TRUE, TRUE)
       \/ PutSettings([soloRegistrationOpen |-> TRUE], TRUE, FALSE)
       \/ PutSettings(<< >>, FALSE, TRUE)

\* the database holds the questions an administrator has stored
InitStored == Init /\ questions = SeedQuestions

NextReg == SoloSteps \/ SchoolSteps \/ GateSteps
SpecReg == InitStored /\ [][NextReg]_vars

\* the quiz, taken by a registered population: the participants table after
\* the solo registrations of Ann and Bob, with generator outcomes 0 and 1
RegisteredParticipants ==
    [id \in {1, 2} |->
        NewParticipant(id, [ValidBody EXCEPT !.name = IF id = 1 THEN "Ann" ELSE "Bob"],
                       generatePasscode(Draw(id - 1)))]

InitQuiz ==
    /\ systemSettings \in {InitSettingsRow, MigratedSettingsRow, NoRow}
    /\ schools = << >>
    /\ participants = RegisteredParticipants
    /\ questions = SeedQuestions
    /\ quizSubmissions = << >>
    /\ req = [r \in Reqs |-> Idle]
    /\ resp = NoResp
    /\ thrown = ""
    /\ now = 0
    /\ sessions = {}
    /\ issued = {}
    /\ adminPassword = ConfiguredPassword
    /\ boot = IF systemSettings = NoRow THEN "failed" ELSE "done"
    /\ uuids = DrawnIds
    /\ process = "running"

NextQuiz == SubmitSteps
SpecQuiz == InitQuiz /\ [][NextQuiz]_vars

\* passcode verification during the quiz, while the two participants hand
\* in their answers and the settings are changed.  The passcodes tried:
\* theirs and one that nobody has
QuizVerifyCodes ==
    {generatePasscode(Draw(0)), generatePasscode(Draw(1)), generatePasscode(Draw(MaxCodes))}

QuizVerifySteps ==
    /\ Running /\ UNCHANGED authVars
    /\ \/ \E r \in Reqs, passcode \in QuizVerifyCodes : VerifyLookup(r, Str(passcode), TRUE)
       \/ \E r \in Reqs : VerifyLookup(r, Undefined, TRUE)
       \/ \E r \in Reqs : VerifyLookup(r, Str(generatePasscode(Draw(0))), FALSE)
       \/ \E r \in Reqs, dbOk \in BOOLEAN : VerifySettings(r, dbOk)

HandInSteps ==
    /\ Running /\ UNCHANGED authVars
    /\ \/ \E r \in Reqs, p \in {1, 2} :
             SubmitInsert(r, [participantId |-> p, answers |-> << >>, timeTaken |-> 30,
                              score |-> 1, totalMarks |-> 4], TRUE)
       \/ \E r \in Reqs : SubmitUpdate(r, TRUE)

NextVerify == QuizVerifySteps \/ HandInSteps \/ SettingsSteps
SpecVerify == InitQuiz /\ [][NextVerify]_vars

\* the quiz with deletes by an administrator: the participants hand in and
\* verify, and submissions and participants are deleted
InitDelete ==
    /\ systemSettings = InitSettingsRow
    /\ schools = << >>
    /\ participants = RegisteredParticipants
    /\ questions = SeedQuestions
    /\ quizSubmissions = << >>
    /\ req = [r \in Reqs |-> Idle]
    /\ resp = NoResp
    /\ thrown = ""
    /\ now = 0
    /\ sessions = {}
    /\ issued = {}
    /\ adminPassword = ConfiguredPassword
    /\ boot = IF systemSettings = NoRow THEN "failed" ELSE "done"
    /\ uuids = DrawnIds
    /\ process = "running"

NextDelete == QuizVerifySteps \/ HandInSteps \/ DeleteSteps
SpecDelete == InitDelete /\ [][NextDelete]_vars

\* registration, hand-in and deletes of participants together, on the
\* registered population
\* the generator draws a passcode that is taken or one that is free
NextFrame ==
    \/ /\ Running /\ UNCHANGED authVars
       /\ \/ \E r \in Reqs, body \in SoloBodies : SoloStart(r, body, TRUE)
          \/ \E r \in Reqs, k \in {0, MaxCodes} : SoloGen(r, k, TRUE)
          \/ \E r \in Reqs, dbOk \in BOOLEAN : SoloInsert(r, dbOk)
    \/ HandInSteps
    \/ Running /\ UNCHANGED authVars /\ \E id \in {2, GhostId} : DeleteParticipant(id, TRUE)

SpecFrame == InitDelete /\ [][NextFrame]_vars

\* passcode generation in a small code space: the generator draws one of
\* the codes of the registered population, which are all in use, or all but
\* the second participant's when that participant is not registered.  Every
\* outcome of the generator is drawn again and again (fair random choice).
GenDraws == {0, 1}

InitGen ==
    /\ systemSettings = InitSettingsRow
    /\ schools = << >>
    /\ participants \in {RegisteredParticipants, Without(RegisteredParticipants, {2})}
    /\ questions = SeedQuestions
    /\ quizSubmissions = << >>
    /\ req = [r \in Reqs |-> Idle]
    /\ resp = NoResp
    /\ thrown = ""
    /\ now = 0
    /\ sessions = {}
    /\ issued = {}
    /\ adminPassword = ConfiguredPassword
    /\ boot = IF systemSettings = NoRow THEN "failed" ELSE "done"
    /\ uuids = DrawnIds
    /\ process = "running"

GenTurn(r, k) == Running /\ UNCHANGED authVars /\ SoloGen(r, k, TRUE)

NextGen ==
    \/ /\ Running /\ UNCHANGED authVars
       /\ \/ \E r \in Reqs, body \in SoloBodies : SoloStart(r, body, TRUE)
          \/ \E r \in Reqs, dbOk \in BOOLEAN : SoloInsert(r, dbOk)
    \/ \E r \in Reqs, k \in GenDraws : GenTurn(r, k)
    \/ HandInSteps

SpecGen ==
    InitGen /\ [][NextGen]_vars /\ \A r \in Reqs, k \in GenDraws : WF_vars(GenTurn(r, k))

\* the token functions while the clock advances
NextToken == Tick \/ TokenSteps
SpecToken == InitStored /\ [][NextToken]_vars

\* the admin routes on a populated store, with and without a configured
\* ADMIN_PASSWORD
InitAdmin ==
    /\ systemSettings = InitSettingsRow
    /\ schools = << >>
    /\ participants = RegisteredParticipants
    /\ questions = SeedQuestions
    /\ quizSubmissions = (1 :> createQuizSubmission(1, [participantId |-> 1, answers |-> << >>,
                                 score |-> 1, totalMarks |-> 4, timeTaken |-> 30]))
    /\ req = [r \in Reqs |-> Idle]
    /\ resp = NoResp
    /\ thrown = ""
    /\ now = 0
    /\ sessions = {}
    /\ issued = {}
    /\ adminPassword \in {ConfiguredPassword, Undefined}
    /\ boot = "done"
    /\ uuids = DrawnIds
    /\ process = "running"

\* one admin request and one login at a time
NextAdmin == Elapse \/ LoginOn({2}) \/ AdminOn({1}) \/ UnhandledRejection
SpecAdmin == InitAdmin /\ [][NextAdmin]_vars

\* solo registration and the question fetch while the server starts and an
\* administrator edits the questions
SoloOne ==
    /\ Running /\ UNCHANGED authVars
    /\ \/ SoloStart(1, ValidBody, TRUE)
       \/ SoloGen(1, 0, TRUE)
       \/ SoloInsert(1, TRUE)

NextQuestions == SoloOne \/ QuestionSteps \/ QuestionStoreSteps \/ BootSteps
SpecQuestions == Init /\ [][NextQuestions]_vars

\* the first requests of a server that starts on an empty or on a
\* populated database: a solo registration, a login and an admin request
\* while initializeDatabase runs
NextStart == BootSteps \/ SoloOne \/ LoginOn({2}) \/ AdminOn({1}) \/ UnhandledRejection
SpecStart == Init /\ [][NextStart]_vars


(***************************************************************************)
(* Properties                                                              *)
(***************************************************************************)
\* QuizEligibilityFilter.selectQuestions of the design: the ids of the
\* questions a participant is allowed to see and is scored on
EligibleQuestions(participant) ==
    {q \in DOMAIN questions :
        IF participant.mode = "solo"
        THEN questions[q].mode = "solo" /\ questions[q].subject = NoSubject
        ELSE /\ questions[q].mode \in {"team", "both"}
             /\ questions[q].subject \in {NoSubject, participant.subject}}

RECURSIVE SumMarks(_)
SumMarks(ids) ==
    IF ids = {} THEN 0
    ELSE LET q == CHOOSE x \in ids : TRUE IN questions[q].marks + SumMarks(ids \ {q})

\* ScoringEngine.score of the design
ExpectedTotalMarks(participant) == SumMarks(EligibleQuestions(participant))

ExpectedScore(participant, answers) ==
    SumMarks({q \in EligibleQuestions(participant) :
                 q \in DOMAIN answers /\ answers[q] = questions[q].correctAnswer})

SubmissionsOf(p) == {s \in DOMAIN quizSubmissions : quizSubmissions[s].participantId = p}

\* C1: no step stores a new QuizSubmission for a participant whose
\* hasCompletedQuiz is already true (such a POST /quiz-submissions is
\* rejected with 403 and stores nothing).
C1_CompletedNeverSubmitsAgain ==
    [][\A p \in DOMAIN participants :
          participants[p].hasCompletedQuiz =>
              /\ \A s \in DOMAIN quizSubmissions' \ DOMAIN quizSubmissions :
                    quizSubmissions'[s].participantId # p
              /\ \A r \in Reqs :
                    (req[r].pc = "idle" /\ req'[r].pc = "update") => req'[r].pid # p]_vars

\* C2: once no submission request is in flight, a participant has a stored
\* QuizSubmission if and only if its hasCompletedQuiz is true.
C2_SubmissionIffCompleted ==
    (\A r \in Reqs : req[r].op # "submit") =>
        \A p \in DOMAIN participants :
            (SubmissionsOf(p) # {}) <=> participants[p].hasCompletedQuiz

\* a member list that breaks one of the four rules of the team
MembersInvalid(members) ==
    \/ Len(members) # 5
    \/ \E i \in DOMAIN members : members[i].subject \notin Range(SUBJECTS)
    \/ \E i, j \in DOMAIN members : i # j /\ members[i].subject = members[j].subject
    \/ Cardinality({i \in DOMAIN members : members[i].isLeader}) # 1

\* the registration requests whose member list breaks a rule
InvalidTeams == {body \in SchoolBodies : MembersInvalid(body.members)}

\* C5 as stated: every school registration whose member list breaks a rule
\* is answered with 400 by the step that reads the settings and validates
\* the body, and leaves schools, participants and the request slots unchanged.
C5_InvalidAlways400 ==
    [][\A body \in InvalidTeams :
          SchoolRegister(body, TRUE) =>
              /\ resp'.op = "school"
              /\ resp'.status = 400
              /\ schools' = schools
              /\ participants' = participants
              /\ req' = req]_vars

\* C5 amended: a school registration whose member list breaks a rule leaves
\* schools and participants unchanged; it is answered with 400 when it reads
\* schoolRegistrationOpen as true and with 403 when it reads it as closed.
C5_InvalidRejected ==
    [][\A body \in InvalidTeams :
          SchoolRegister(body, TRUE) =>
              /\ resp'.op = "school"
              /\ resp'.status =
                     IF Flag(getSystemSettings, "schoolRegistrationOpen") THEN 400 ELSE 403
              /\ schools' = schools
              /\ participants' = participants
              /\ req' = req]_vars

C5_Witness ==
    /\ resp.op = "school"
    /\ resp.status = 400
    /\ resp.message = "Exactly one member must be designated as the leader."

AlphaNum ==
    {"A","B","C","D","E","F","G","H","I","J","K","L","M","N","O","P","Q","R","S","T",
     "U","V","W","X","Y","Z","0","1","2","3","4","5","6","7","8","9"}

\* C6: every participant's passcode has exactly 6 characters of A-Z0-9 and
\* no two participants have the same passcode.
C6_PasscodesWellFormedAndUnique ==
    /\ \A p \in DOMAIN participants :
          /\ Len(participants[p].passcode) = 6
          /\ \A i \in 1..6 : participants[p].passcode[i] \in AlphaNum
    /\ \A p, q \in DOMAIN participants :
          p # q => participants[p].passcode # participants[q].passcode

C6_Witness ==
    /\ resp.op = "solo"
    /\ resp.status = 200
    /\ \E p, q \in DOMAIN participants :
          p # q /\ participants[p].mode = "solo" /\ participants[q].mode = "solo"

\* C7: the insert of a registration whose candidate passcode another row
\* already has (the other registration passed the same existence check and
\* inserted first) stores nothing and is not answered with success.
C7_SecondInsertRejected ==
    [][\A r \in Reqs :
          (/\ req[r].pc = "insert"
           /\ req'[r].pc = "idle"
           /\ \E p \in DOMAIN participants : participants[p].passcode = req[r].passcode)
          => (participants' = participants /\ resp'.status # 200)]_vars

C7_Witness ==
    /\ resp.op = "solo"
    /\ thrown = "participants_passcode_unique"
    /\ \E p \in DOMAIN participants : participants[p].mode = "solo"

\* C8: every stored submission of a participant carries the totalMarks of the
\* participant's eligible questions and the score of its answers against
\* them, whatever score and totalMarks the request body carried.
C8_ScoreComputedByServer ==
    \A s \in DOMAIN quizSubmissions :
        quizSubmissions[s].participantId \in DOMAIN participants =>
            LET participant == participants[quizSubmissions[s].participantId] IN
            /\ quizSubmissions[s].totalMarks = ExpectedTotalMarks(participant)
            /\ quizSubmissions[s].score = ExpectedScore(participant, quizSubmissions[s].answers)

\* C9: every stored submission has score <= totalMarks.
C9_ScoreAtMostTotal ==
    \A s \in DOMAIN quizSubmissions :
        quizSubmissions[s].score <= quizSubmissions[s].totalMarks

\* C10: the questions served to a participant are exactly the participant's
\* eligible questions, in ascending orderIndex.
C10_ServedIsEligible ==
    (resp.op = "questions" /\ resp.status = 200) =>
        \A p \in getParticipantByPasscode(resp.query) :
            resp.questions = OrderByOrderIndex(questions, EligibleQuestions(participants[p]))

\* the question stores that differ from the stored one only in the
\* correctAnswer values
AnswerKeys == {"A", "B", "C", "D"}

OtherAnswerStores ==
    {[q \in DOMAIN questions |-> [questions[q] EXCEPT !.correctAnswer = key[q]]] :
        key \in [DOMAIN questions -> AnswerKeys]}

\* C11: the response of GET /questions does not depend on the correctAnswer
\* values: it is the response the same request gets from every store that
\* differs only in them, and no served question carries a correctAnswer.
C11_ResponseHidesCorrectAnswer ==
    (resp.op = "questions" /\ resp.status = 200) =>
        /\ \A other \in OtherAnswerStores :
              resp.questions = OrderByOrderIndex(other, DOMAIN other)
        /\ \A i \in DOMAIN resp.questions : "correctAnswer" \notin DOMAIN resp.questions[i]

\* C12: a registration request that reads its flag as closed is answered
\* with 403 and writes nothing, whatever its body: POST /participants with
\* soloRegistrationOpen false, POST /schools/register with
\* schoolRegistrationOpen false.
C12_ClosedGateWritesNothing ==
    [][/\ (systemSettings # NoRow /\ ~systemSettings.soloRegistrationOpen) =>
             \/ /\ resp'.op = "solo"
                /\ resp'.status = 403
                /\ UNCHANGED <<schools, participants, req>>
             \/ \A r \in Reqs, body \in SoloBodies : ~SoloStart(r, body, TRUE)
       /\ (systemSettings # NoRow /\ ~systemSettings.schoolRegistrationOpen) =>
             \/ /\ resp'.op = "school"
                /\ resp'.status = 403
                /\ UNCHANGED <<schools, participants, req>>
             \/ \A body \in SchoolBodies : ~SchoolRegister(body, TRUE)]_vars

C12_Witness ==
    /\ resp.op = "solo"
    /\ resp.status = 403
    /\ systemSettings # NoRow
    /\ ~systemSettings.soloRegistrationOpen
    /\ participants # << >>

\* C13: a step taken while quizActive is false stores no QuizSubmission and
\* changes no participant (a submission processed then is rejected with 403).
C13_InactiveQuizStoresNothing ==
    [][(systemSettings # NoRow /\ ~systemSettings.quizActive) =>
          /\ quizSubmissions' = quizSubmissions
          /\ participants' = participants
          /\ \A r \in Reqs : req'[r].op = "submit" => req[r].op = "submit"]_vars

\* C14: POST /participants/verify answers 404 exactly when it reads no
\* participant with the passcode, else 403 exactly when the participant it
\* reads has completed the quiz or the settings it reads have quizActive
\* false, else 200 with the participant it read; and no step of it changes
\* a stored record.
C14_VerifyOutcome ==
    [][(resp'.op = "verify" \/ \E r \in Reqs : req'[r].op = "verify") =>
          /\ \A r \in Reqs, passcode \in QuizVerifyCodes :
                VerifyLookup(r, Str(passcode), TRUE) =>
                    LET holders == {p \in DOMAIN participants :
                                       participants[p].passcode = passcode}
                    IN /\ UNCHANGED tables
                       /\ IF holders = {} THEN resp'.status = 404
                          ELSE \A p \in holders :
                                  IF participants[p].hasCompletedQuiz
                                  THEN resp'.status = 403
                                  ELSE /\ resp' = NoResp
                                       /\ req'[r].participant = participants[p]
          /\ \A r \in Reqs :
                VerifySettings(r, TRUE) =>
                    /\ UNCHANGED tables
                    /\ IF systemSettings # NoRow /\ ~systemSettings.quizActive
                       THEN resp'.status = 403
                       ELSE /\ resp'.status = 200
                            /\ resp'.participant = req[r].participant]_vars

C14_Witness ==
    /\ resp.op = "verify"
    /\ resp.status = 403
    /\ resp.message = "Quiz already completed"
    /\ quizSubmissions # << >>

\* C15: no stored QuizSubmission has a participantId that is no
\* participant's id (such a submission is rejected with 404).
C15_SubmissionHasParticipant ==
    \A s \in DOMAIN quizSubmissions :
        quizSubmissions[s].participantId \in DOMAIN participants

\* the body {name: "<non-empty>"}: no email, phone or institution
NameOnlyBody == [name |-> "Ann", email |-> "", phone |-> ""]

\* C16: while soloRegistrationOpen is true, a solo registration that carries
\* only a non-empty name is accepted: the request is not rejected and goes
\* on to create its participant.
C16_NameOnlyAccepted ==
    [][(systemSettings # NoRow /\ systemSettings.soloRegistrationOpen) =>
          \A r \in Reqs :
              SoloStart(r, NameOnlyBody, TRUE) =>
                  /\ resp'.status # 400
                  /\ req'[r].op = "solo"]_vars

\* the issued tokens that a verifyToken response is about
VerifiedIssued ==
    IF resp.op = "verifyToken" THEN {t \in issued : resp.token = Str(t.token)} ELSE {}

\* C17: verifying a token issued for payload p with lifetime ttl, before the
\* lifetime has elapsed, returns p together with exp = time of issue + ttl.
C17_RoundTrip ==
    \A t \in VerifiedIssued :
        resp.at < t.iat + t.ttl => resp.result = SpreadWithExp(t.payload, t.iat + t.ttl)

\* a token is verified after its issue and before its expiry, and the
\* payload comes back
C17_Witness ==
    \E t \in VerifiedIssued :
        /\ t.iat < resp.at
        /\ resp.at < t.iat + t.ttl
        /\ resp.result = SpreadWithExp(t.payload, t.iat + t.ttl)

\* C18: verifying an issued token after its lifetime has elapsed returns
\* null, and a token that verifies to null at one time verifies to null at
\* every later time.
C18_ExpiredStaysRejected ==
    /\ [](\A t \in VerifiedIssued : resp.at > t.iat + t.ttl => resp.result = Null)
    /\ [][\A t \in issued :
             (now' >= now /\ verifyAdminToken(Str(t.token), now) = Null)
                 => verifyAdminToken(Str(t.token), now') = Null]_vars

\* an issued token is verified after its expiry and null comes back
C18_Witness ==
    \E t \in VerifiedIssued : resp.at > t.iat + t.ttl /\ resp.result = Null

\* the tampered tokens that a verifyToken response is about
VerifiedTampered ==
    IF resp.op = "verifyToken"
    THEN {x \in UNION {Tampered(t.token) : t \in issued} : resp.token = Str(x)}
    ELSE {}

\* C19: verifying a tampered token (a changed character in the payload or
\* the signature part, a signature of another length, no ".", text appended
\* after the signature) returns null: no payload, and no error is raised.
C19_TamperedRejected ==
    VerifiedTampered # {} => resp.result = Null

\* a bearer token that verifyAdminToken accepts, or a session marked isAdmin
Granted(auth, sid) ==
    \/ verifyAdminToken(BearerToken(auth), now) \notin {Null, Throws}
    \/ SessionIsAdmin(sid)

\* C20: a request to an admin route reaches the route's handler when its
\* bearer token is accepted by verifyAdminToken or its session is marked
\* isAdmin; every other request is answered with 401 and changes no state.
C20_AdminRoutesGuarded ==
    [][\A r \in Reqs, auth \in AuthHeaders, sid \in Cookies, route \in AdminRoutes :
          \A body \in (IF route = "putSettings" THEN AdminSettingsBodies \cup {Undefined}
                       ELSE {<< >>}) :
              AdminRequest(r, auth, sid, route, body) =>
                  IF Granted(auth, sid)
                  THEN resp'.op \notin {"requireAdmin", "errorHandler"}
                  ELSE /\ resp'.status = 401
                       /\ UNCHANGED <<dataVars, thrown, authVars>>]_vars

\* C21: deleting a stored quiz submission sets hasCompletedQuiz of the
\* participant it references back to false, so that the participant can
\* verify and submit again.
C21_DeleteRestoresParticipant ==
    [][\A id \in DOMAIN quizSubmissions :
          LET p == quizSubmissions[id].participantId IN
          (DeleteQuizSubmission(id, TRUE) /\ p \in DOMAIN participants)
              => ~participants'[p].hasCompletedQuiz]_vars

\* C22: while the settings record has never been initialized, the
\* registration flags read as open: no solo and no school registration is
\* answered with 403.
C22_UninitializedPermitsRegistration ==
    systemSettings = NoRow => ~(resp.op \in {"solo", "school"} /\ resp.status = 403)

\* the columns of a participant other than has_completed_quiz
FixedColumns ==
    {"id", "name", "email", "phone", "institution", "passcode", "mode", "schoolId", "subject",
     "isLeader"}

\* C24: no step changes the id, name, passcode, mode, schoolId, subject or
\* isLeader (nor the email, phone or institution) of a participant that
\* exists before and after it; the only field of a participant that a step
\* changes is hasCompletedQuiz.
C24_ParticipantFrame ==
    [][\A p \in DOMAIN participants \cap DOMAIN participants' :
          \A f \in FixedColumns : participants'[p][f] = participants[p][f]]_vars

\* a participant has handed in, and another participant has registered
\* since
C24_Witness ==
    /\ 1 \in DOMAIN participants
    /\ participants[1].hasCompletedQuiz
    /\ participants[1].name = "Ann"
    /\ \E p \in DOMAIN participants : p > LastId(RegisteredParticipants)

\* C25: a solo registration in which a store call failed is answered with
\* 500; 400 is the answer to a malformed or incomplete body only.
C25_StoreFailureIs500 ==
    resp.op = "solo" =>
        /\ thrown # "" => resp.status = 500
        /\ resp.status = 400 => thrown = ""

\* C26: the passcode loop of a registration ends: with a code that no
\* participant has when one is unused, with a failure when every code of
\* the space is in use.
C26_GenerationTerminates ==
    \A r \in Reqs : (req[r].pc = "gen") ~> (req[r].pc # "gen")

\* the flags whose value, as a read of the settings gives it, a step changes
ChangedFlags ==
    {f \in FlagNames : Flag(getSystemSettings', f) # Flag(getSystemSettings, f)}

\* C27: a step changes the value of a settings flag only when it is the
\* update of a PUT /admin/settings whose body names the flag, and such a
\* request has passed requireAdmin with an accepted token or an admin
\* session; no step deletes the settings record.
C27_SettingsFrame ==
    [][/\ (systemSettings # NoRow) => (systemSettings' # NoRow)
       /\ \A r \in Reqs :
             (req[r].pc = "idle" /\ req'[r].pc = "admin") =>
                 \E auth \in AuthHeaders, sid \in Cookies :
                     /\ Granted(auth, sid)
                     /\ AdminRequest(r, auth, sid, req'[r].op, req'[r].body)
       /\ \/ ChangedFlags = {}
          \/ \E r \in Reqs :
                /\ req[r].pc = "admin"
                /\ req[r].op = "putSettings"
                /\ ChangedFlags \subseteq DOMAIN req[r].body
                /\ AdminPutSettings(r, TRUE)]_vars

\* C28: a login request whose password is missing or differs from the
\* configured admin password is answered with 401 and gets no token and no
\* admin session, also when no admin password is configured.
C28_LoginNeedsPassword ==
    [][\A r \in Reqs, password \in Passwords, sid \in Cookies,
         hasSession \in BOOLEAN, destroyOk \in BOOLEAN :
          (LoginStart(r, password, sid, hasSession, destroyOk)
              /\ (password = Undefined \/ adminPassword = Undefined \/ password # adminPassword))
          => /\ resp'.status = 401
             /\ UNCHANGED <<sessions, issued, req>>]_vars

\* C29: in every reachable state at most one quiz submission is stored per
\* participantId, also when two requests for the same participant interleave.
C29_OneSubmissionPerParticipant ==
    \A s, t \in DOMAIN quizSubmissions :
        quizSubmissions[s].participantId = quizSubmissions[t].participantId => s = t

\* C30: in every reachable state the participantId of every stored quiz
\* submission is the id of a participant of the store, also after deletes
\* of participants.
C30_SubmissionsReferenceParticipants ==
    \A s \in DOMAIN quizSubmissions :
        \E p \in DOMAIN participants : participants[p].id = quizSubmissions[s].participantId
====
